---- MODULE Spec2Model ----
(***************************************************************************)
(* Model of the editing core of the `lite` editor:                         *)
(*   lite-core/src/transaction.rs  Operation, Change, ChangeSet,           *)
(*                                 Transaction                             *)
(*   lite-core/src/selection.rs    Range, Selection                        *)
(*   lite-view/src/history.rs      History                                 *)
(*   lite-view/src/document.rs     Document                                *)
(*   lite-view/src/tree.rs         Node, Tree                              *)
(*   lite-view/src/view.rs         View, ViewId                            *)
(*   lite-view/src/editor.rs       Editor                                  *)
(*   lite-core/src/position.rs     Position                                *)
(*                                                                         *)
(* A rope is a sequence of characters; offsets are char indices, 0-based   *)
(* as in the source (SubSeq is 1-based, hence the +1 in slices).           *)
(* usize values are kept as small integers; where the source subtracts     *)
(* below zero the two outcomes of the build (panic with overflow checks,   *)
(* wrap-around modulo 2^64 without) are both modelled: a wrapped value is  *)
(* represented by its negative residue, which compares above every         *)
(* non-negative value.                                                     *)
(***************************************************************************)
EXTENDS Integers, Sequences, FiniteSets, TLC

VARIABLES
    cs_in,      \* inputs of the function under study (ChangeSet, normalize)
    cs_out,     \* what the function returned
    cs_pc,      \* which function has run
    hist,       \* a History on its own (transactions are opaque to it)
    hist_last,  \* the last History call, its argument and the History before it
    hist_n,     \* number of History calls made / next transaction id
    doc,        \* a Document
    last_call,  \* the last Document call: operation, view, result, Document before
    undo_log,   \* per undo entry: buffer and selection when it was pushed
    redo_log,   \* per undone edit: buffer and selection when it was undone
    steps,      \* number of Document calls made
    sel_cur,    \* a Selection on its own
    sel_last,   \* the last Selection call, its arguments and the Selection before it
    editor,     \* an Editor: documents, views, layout tree
    counters,   \* the process-wide id counters of DocumentId and ViewId
    ed_last     \* the last Editor call and what it returned

vars == <<cs_in, cs_out, cs_pc, hist, hist_last, hist_n,
          doc, last_call, undo_log, redo_log, steps, sel_cur, sel_last,
          editor, counters, ed_last>>

\* ------------------------------------------------------------------------
\* Bounds of the model
\* ------------------------------------------------------------------------
\* longest buffer handed to the ChangeSet functions
MaxLen == 4
\* longest inserted text handed to the ChangeSet functions
MaxIns == 2
\* number of calls made on a History on its own
MaxHistCalls == 4
\* number of calls made on the Document
MaxSteps == 5
\* longest sequence of ops of a ChangeSet that no Change describes
MaxOps == 4
\* largest offset of a Range handed to a Selection
MaxPos == 2
\* longest list of ranges handed to Selection::new and Selection::replace
MaxRanges == 3

Chars == {"a", "b"}

Min(x, y) == IF x <= y THEN x ELSE y
Max(x, y) == IF x >= y THEN x ELSE y

\* all character sequences of length n / of length at most n
SeqsOfLen(n) == [1..n -> Chars]
SeqsUpTo(n) == UNION {SeqsOfLen(k) : k \in 0..n}

\* ------------------------------------------------------------------------
\* transaction.rs: Operation, Change
\* ------------------------------------------------------------------------
Retain(n) == [kind |-> "Retain", n |-> n, text |-> <<>>]
Insert(s) == [kind |-> "Insert", n |-> 0, text |-> s]
Delete(n) == [kind |-> "Delete", n |-> n, text |-> <<>>]

Change_insert(pos, text) == [start |-> pos, end |-> pos, insert |-> text]
Change_delete(start, end) == [start |-> start, end |-> end, insert |-> <<>>]
Change_replace(start, end, text) == [start |-> start, end |-> end, insert |-> text]

\* ------------------------------------------------------------------------
\* transaction.rs: ChangeSet
\* ------------------------------------------------------------------------
ChangeSet_new(doc_len) == [doc_len |-> doc_len, ops |-> <<>>]

\* from_change that pushes the leading Retain also when start is 0
from_change_AlwaysRetain(doc_len, change) ==
    [doc_len |-> doc_len,
     ops |-> <<Retain(change.start)>>
          \o (IF change.end > change.start
              THEN <<Delete(change.end - change.start)>> ELSE <<>>)
          \o (IF change.insert # <<>> THEN <<Insert(change.insert)>> ELSE <<>>)
          \o (IF change.end < doc_len
              THEN <<Retain(doc_len - change.end)>> ELSE <<>>)]

from_change(doc_len, change) ==
    [doc_len |-> doc_len,
     ops |-> (IF change.start > 0 THEN <<Retain(change.start)>> ELSE <<>>)
          \o (IF change.end > change.start
              THEN <<Delete(change.end - change.start)>> ELSE <<>>)
          \o (IF change.insert # <<>> THEN <<Insert(change.insert)>> ELSE <<>>)
          \o (IF change.end < doc_len
              THEN <<Retain(doc_len - change.end)>> ELSE <<>>)]

is_empty_NoOps(cs) == cs.ops = <<>>

is_empty(cs) == \A i \in 1..Len(cs.ops) : cs.ops[i].kind = "Retain"

RECURSIVE new_len_ops(_, _)
new_len_ops(ops, i) ==
    IF i > Len(ops) THEN 0
    ELSE (CASE ops[i].kind = "Retain" -> ops[i].n
            [] ops[i].kind = "Insert" -> Len(ops[i].text)
            [] ops[i].kind = "Delete" -> 0)
         + new_len_ops(ops, i + 1)

new_len(cs) == new_len_ops(cs.ops, 1)

\* Rope::insert(pos, text) and Rope::remove(pos..pos+n) panic when the
\* index is past the end of the rope; the rope keeps what the earlier ops
\* did to it.
rope_insert(rope, pos, text) ==
    SubSeq(rope, 1, pos) \o text \o SubSeq(rope, pos + 1, Len(rope))

rope_remove(rope, pos, n) ==
    SubSeq(rope, 1, pos) \o SubSeq(rope, pos + n + 1, Len(rope))

rope_slice(rope, pos, n) == SubSeq(rope, pos + 1, pos + n)

RECURSIVE apply_ops(_, _, _, _)
apply_ops(ops, i, rope, pos) ==
    IF i > Len(ops) THEN [rope |-> rope, panicked |-> FALSE]
    ELSE LET op == ops[i] IN
         CASE op.kind = "Retain" -> apply_ops(ops, i + 1, rope, pos + op.n)
           [] op.kind = "Insert" ->
                IF pos > Len(rope) THEN [rope |-> rope, panicked |-> TRUE]
                ELSE apply_ops(ops, i + 1, rope_insert(rope, pos, op.text),
                               pos + Len(op.text))
           [] op.kind = "Delete" ->
                IF pos + op.n > Len(rope) THEN [rope |-> rope, panicked |-> TRUE]
                ELSE apply_ops(ops, i + 1, rope_remove(rope, pos, op.n), pos)

ChangeSet_apply(cs, rope) == apply_ops(cs.ops, 1, rope, 0)

\* invert that forgets to advance the source cursor over retained text
RECURSIVE invert_ops_NoAdvance(_, _, _, _, _)
invert_ops_NoAdvance(ops, i, original, pos, acc) ==
    IF i > Len(ops) THEN [ops |-> acc, panicked |-> FALSE]
    ELSE LET op == ops[i] IN
         CASE op.kind = "Retain" ->
                invert_ops_NoAdvance(ops, i + 1, original, pos,
                                     Append(acc, Retain(op.n)))
           [] op.kind = "Insert" ->
                invert_ops_NoAdvance(ops, i + 1, original, pos,
                                     Append(acc, Delete(Len(op.text))))
           [] op.kind = "Delete" ->
                IF pos + op.n > Len(original)
                THEN [ops |-> acc, panicked |-> TRUE]
                ELSE invert_ops_NoAdvance(ops, i + 1, original, pos + op.n,
                         Append(acc, Insert(rope_slice(original, pos, op.n))))

\* invert that keeps inserted text instead of deleting it
RECURSIVE invert_ops_InsertToRetain(_, _, _, _, _)
invert_ops_InsertToRetain(ops, i, original, pos, acc) ==
    IF i > Len(ops) THEN [ops |-> acc, panicked |-> FALSE]
    ELSE LET op == ops[i] IN
         CASE op.kind = "Retain" ->
                invert_ops_InsertToRetain(ops, i + 1, original, pos + op.n,
                                          Append(acc, Retain(op.n)))
           [] op.kind = "Insert" ->
                invert_ops_InsertToRetain(ops, i + 1, original, pos,
                                          Append(acc, Retain(Len(op.text))))
           [] op.kind = "Delete" ->
                IF pos + op.n > Len(original)
                THEN [ops |-> acc, panicked |-> TRUE]
                ELSE invert_ops_InsertToRetain(ops, i + 1, original,
                         pos + op.n,
                         Append(acc, Insert(rope_slice(original, pos, op.n))))

RECURSIVE invert_ops(_, _, _, _, _)
invert_ops(ops, i, original, pos, acc) ==
    IF i > Len(ops) THEN [ops |-> acc, panicked |-> FALSE]
    ELSE LET op == ops[i] IN
         CASE op.kind = "Retain" ->
                invert_ops(ops, i + 1, original, pos + op.n,
                           Append(acc, Retain(op.n)))
           [] op.kind = "Insert" ->
                invert_ops(ops, i + 1, original, pos,
                           Append(acc, Delete(Len(op.text))))
           [] op.kind = "Delete" ->
                \* original.slice(pos..pos + n) panics past the end
                IF pos + op.n > Len(original)
                THEN [ops |-> acc, panicked |-> TRUE]
                ELSE invert_ops(ops, i + 1, original, pos + op.n,
                         Append(acc, Insert(rope_slice(original, pos, op.n))))

\* invert that declares the length the original changeset applies to
ChangeSet_invert_KeepDocLen(cs, original) ==
    LET r == invert_ops(cs.ops, 1, original, 0, <<>>)
    IN  [cs |-> [doc_len |-> cs.doc_len, ops |-> r.ops],
         panicked |-> r.panicked]

ChangeSet_invert(cs, original) ==
    LET r == invert_ops(cs.ops, 1, original, 0, <<>>)
    IN  [cs |-> [doc_len |-> new_len(cs), ops |-> r.ops],
         panicked |-> r.panicked]

\* ------------------------------------------------------------------------
\* transaction.rs: ChangeSet::compose
\* ------------------------------------------------------------------------
Builds == {"debug", "release"}

\* min of two usize values, a negative one standing for 2^64 + itself
usize_min(x, y) ==
    IF x < 0 /\ y >= 0 THEN y
    ELSE IF y < 0 /\ x >= 0 THEN x
    ELSE Min(x, y)

\* The loop of compose. ia, ib are the positions of the two peekable
\* iterators, len_a, len_b the consumed-length counters, acc the ops pushed
\* so far. `*a - len_a` and `*b - len_b` panic on a build with overflow
\* checks when the counter exceeds the op's length and wrap otherwise.
RECURSIVE compose_loop(_, _, _, _, _, _, _, _)
compose_loop(A, B, ia, ib, len_a, len_b, acc, build) ==
    LET hasA == ia <= Len(A)
        hasB == ib <= Len(B)
        a == A[ia]
        b == B[ib]
        \* the two arms that split a pair of counted ops
        split(kind) ==
            IF build = "debug" /\ (a.n < len_a \/ b.n < len_b)
            THEN [kind |-> "Panic", ops |-> acc]
            ELSE LET min == usize_min(a.n - len_a, b.n - len_b)
                     la == len_a + min
                     lb == len_b + min
                     out == Append(acc, IF kind = "Retain" THEN Retain(min)
                                                          ELSE Delete(min))
                 IN  compose_loop(A, B,
                        IF la = a.n THEN ia + 1 ELSE ia,
                        IF lb = b.n THEN ib + 1 ELSE ib,
                        IF la = a.n THEN 0 ELSE la,
                        IF lb = b.n THEN 0 ELSE lb,
                        out, build)
    IN
    IF ~hasA /\ ~hasB THEN [kind |-> "Some", ops |-> acc]
    ELSE IF hasA /\ a.kind = "Insert"
         THEN compose_loop(A, B, ia + 1, ib, len_a, len_b,
                           Append(acc, Insert(a.text)), build)
    ELSE IF hasB /\ b.kind = "Delete"
         THEN compose_loop(A, B, ia, ib + 1, len_a, len_b,
                           Append(acc, Delete(b.n)), build)
    ELSE IF ~hasA
         THEN compose_loop(A, B, ia, ib + 1, len_a, len_b, Append(acc, b), build)
    ELSE IF ~hasB
         THEN compose_loop(A, B, ia + 1, ib, len_a, len_b, Append(acc, a), build)
    ELSE IF a.kind = "Retain" /\ b.kind = "Retain" THEN split("Retain")
    ELSE IF a.kind = "Retain" /\ b.kind = "Insert"
         THEN compose_loop(A, B, ia, ib + 1, len_a, len_b,
                           Append(acc, Insert(b.text)), build)
    ELSE IF a.kind = "Delete" /\ b.kind = "Retain" THEN split("Delete")
    ELSE \* a.kind = "Delete" /\ b.kind = "Insert"
         compose_loop(A, B, ia + 1, ib + 1, len_a, len_b,
                      Append(Append(acc, Delete(a.n)), Insert(b.text)), build)

\* kind "None": no result; "Some": cs is the result; "Panic": the call faulted
compose(self, other, build) ==
    IF new_len(self) # other.doc_len
    THEN [kind |-> "None", cs |-> ChangeSet_new(self.doc_len)]
    ELSE LET r == compose_loop(self.ops, other.ops, 1, 1, 0, 0, <<>>, build)
         IN  [kind |-> r.kind, cs |-> [doc_len |-> self.doc_len, ops |-> r.ops]]

\* ------------------------------------------------------------------------
\* selection.rs: Range, Selection
\* ------------------------------------------------------------------------
Range_new(anchor, head) == [anchor |-> anchor, head |-> head]
Range_point(pos) == [anchor |-> pos, head |-> pos]
Range_start(r) == Min(r.anchor, r.head)
Range_end(r) == Max(r.anchor, r.head)
Range_contains(r, pos) == pos >= Range_start(r) /\ pos < Range_end(r)

\* merge that takes the end of the second range for the end of the result
Range_merge_OtherEnd(r, other) ==
    IF Range_end(r) >= Range_start(other) /\ Range_end(other) >= Range_start(r)
    THEN [some |-> TRUE,
          range |-> Range_new(Min(Range_start(r), Range_start(other)),
                              Range_end(other))]
    ELSE [some |-> FALSE, range |-> r]

\* merge that joins overlapping ranges only, not touching ones
Range_merge_NoTouch(r, other) ==
    IF Range_end(r) > Range_start(other) /\ Range_end(other) > Range_start(r)
    THEN [some |-> TRUE,
          range |-> Range_new(Min(Range_start(r), Range_start(other)),
                              Max(Range_end(r), Range_end(other)))]
    ELSE [some |-> FALSE, range |-> r]

\* Range::merge: some = FALSE stands for None
Range_merge(r, other) ==
    IF Range_end(r) >= Range_start(other) /\ Range_end(other) >= Range_start(r)
    THEN [some |-> TRUE,
          range |-> Range_new(Min(Range_start(r), Range_start(other)),
                              Max(Range_end(r), Range_end(other)))]
    ELSE [some |-> FALSE, range |-> r]

Selection_point(pos) == [ranges |-> <<Range_point(pos)>>, primary_idx |-> 0]
Selection_single(range) == [ranges |-> <<range>>, primary_idx |-> 0]

\* sort_by_key(|r| (r.start(), r.end())): a stable sort
key_le(r1, r2) ==
    \/ Range_start(r1) < Range_start(r2)
    \/ Range_start(r1) = Range_start(r2) /\ Range_end(r1) <= Range_end(r2)

RECURSIVE insert_sorted(_, _)
insert_sorted(sorted, r) ==
    IF sorted = <<>> THEN <<r>>
    ELSE IF key_le(sorted[Len(sorted)], r) THEN Append(sorted, r)
    ELSE Append(insert_sorted(SubSeq(sorted, 1, Len(sorted) - 1), r),
                sorted[Len(sorted)])

RECURSIVE sort_by_key(_)
sort_by_key(ranges) ==
    IF ranges = <<>> THEN <<>>
    ELSE insert_sorted(sort_by_key(SubSeq(ranges, 1, Len(ranges) - 1)),
                       ranges[Len(ranges)])

RECURSIVE merge_ranges(_, _, _)
merge_ranges(ranges, i, merged) ==
    IF i > Len(ranges) THEN merged
    ELSE IF merged # <<>> /\ Range_merge(merged[Len(merged)], ranges[i]).some
         THEN merge_ranges(ranges, i + 1,
                  [merged EXCEPT ![Len(merged)] =
                      Range_merge(merged[Len(merged)], ranges[i]).range])
         ELSE merge_ranges(ranges, i + 1, Append(merged, ranges[i]))

\* position that looks for a range containing the head only
position_of_ContainsOnly(merged, primary_range) ==
    LET hits == {i \in 1..Len(merged) :
                    Range_contains(merged[i], primary_range.head)}
    IN  IF hits = {} THEN 0
        ELSE (CHOOSE i \in hits : \A j \in hits : i <= j) - 1

\* position(..).unwrap_or(0), as a 0-based index
position_of(merged, primary_range) ==
    LET hits == {i \in 1..Len(merged) :
                    \/ Range_contains(merged[i], primary_range.head)
                    \/ merged[i] = primary_range}
    IN  IF hits = {} THEN 0
        ELSE (CHOOSE i \in hits : \A j \in hits : i <= j) - 1

\* Selection::normalize. self.primary() indexes the sorted ranges with the
\* primary index of before the call and panics when it is out of bounds.
normalize(sel) ==
    IF sel.ranges = <<>>
    THEN [sel |-> Selection_point(0), panicked |-> FALSE]
    ELSE LET sorted == sort_by_key(sel.ranges)
         IN  IF sel.primary_idx >= Len(sorted)
             THEN [sel |-> [ranges |-> sorted, primary_idx |-> sel.primary_idx],
                   panicked |-> TRUE]
             ELSE LET primary_range == sorted[sel.primary_idx + 1]
                      merged == merge_ranges(sorted, 1, <<>>)
                  IN  [sel |-> [ranges |-> merged,
                                primary_idx |-> position_of(merged, primary_range)],
                       panicked |-> FALSE]

saturating_sub(x, y) == IF x >= y THEN x - y ELSE 0

Selection_new(ranges, primary_idx) ==
    LET sel == normalize([ranges |-> ranges, primary_idx |-> 0]).sel
    IN  [sel EXCEPT !.primary_idx =
            Min(primary_idx, saturating_sub(Len(sel.ranges), 1))]

\* Selection::transform(f); mapped is self.ranges.iter().map(f).collect(),
\* the image of every range under f, in order
Selection_transform(sel, mapped) == Selection_new(mapped, sel.primary_idx)

Range_collapse(r) == Range_point(r.head)

\* Selection::collapse: transform(|r| r.collapse())
Selection_collapse(sel) ==
    Selection_transform(sel, [i \in 1..Len(sel.ranges) |->
                                 Range_collapse(sel.ranges[i])])

\* add_range, add_cursor and replace change the ranges and normalize in
\* place with the primary index the selection had: they return what
\* normalize returns
Selection_add_range(sel, range) ==
    normalize([sel EXCEPT !.ranges = Append(@, range)])

Selection_add_cursor(sel, pos) ==
    normalize([sel EXCEPT !.ranges = Append(@, Range_point(pos))])

Selection_replace(sel, ranges) == normalize([sel EXCEPT !.ranges = ranges])

set_primary_idx(sel, idx) ==
    [sel EXCEPT !.primary_idx = Min(idx, saturating_sub(Len(sel.ranges), 1))]

\* Selection::primary; the index is in bounds where this is used
primary(sel) == sel.ranges[sel.primary_idx + 1]

\* ------------------------------------------------------------------------
\* transaction.rs: ChangeSet::map_pos
\* ------------------------------------------------------------------------
\* map_pos that sends a position inside a deleted span to offset 0
RECURSIVE map_pos_loop_InsideToZero(_, _, _, _, _)
map_pos_loop_InsideToZero(ops, i, pos, old_pos, new_pos) ==
    IF i > Len(ops) \/ old_pos > pos THEN Min(new_pos, pos)
    ELSE LET op == ops[i] IN
         CASE op.kind = "Retain" ->
                map_pos_loop_InsideToZero(ops, i + 1, pos, old_pos + op.n,
                                          new_pos + op.n)
           [] op.kind = "Insert" ->
                map_pos_loop_InsideToZero(ops, i + 1, pos, old_pos,
                    IF old_pos <= pos THEN new_pos + Len(op.text) ELSE new_pos)
           [] op.kind = "Delete" ->
                map_pos_loop_InsideToZero(ops, i + 1,
                    IF old_pos + op.n <= pos THEN pos - op.n
                    ELSE IF old_pos < pos THEN 0 ELSE pos,
                    old_pos + op.n, new_pos)

\* The loop of map_pos; pos is the (mutable) argument.
RECURSIVE map_pos_loop(_, _, _, _, _)
map_pos_loop(ops, i, pos, old_pos, new_pos) ==
    IF i > Len(ops) \/ old_pos > pos THEN Min(new_pos, pos)
    ELSE LET op == ops[i] IN
         CASE op.kind = "Retain" ->
                map_pos_loop(ops, i + 1, pos, old_pos + op.n, new_pos + op.n)
           [] op.kind = "Insert" ->
                map_pos_loop(ops, i + 1, pos, old_pos,
                    IF old_pos <= pos THEN new_pos + Len(op.text) ELSE new_pos)
           [] op.kind = "Delete" ->
                map_pos_loop(ops, i + 1,
                    IF old_pos + op.n <= pos THEN pos - op.n
                    ELSE IF old_pos < pos THEN old_pos ELSE pos,
                    old_pos + op.n, new_pos)

\* a map_pos that leaves every position where it was
map_pos_Unmapped(cs, pos) == pos

map_pos(cs, pos) == map_pos_loop(cs.ops, 1, pos, 0, 0)

\* ------------------------------------------------------------------------
\* transaction.rs: Transaction
\* ------------------------------------------------------------------------
\* Option<Selection>: some = FALSE stands for None
NoSelection == [some |-> FALSE, sel |-> Selection_point(0)]
SomeSelection(sel) == [some |-> TRUE, sel |-> sel]

Transaction_new(changes) == [changes |-> changes, selection |-> NoSelection]
Transaction_change(doc_len, change) ==
    Transaction_new(from_change(doc_len, change))
with_selection(tx, selection) ==
    [tx EXCEPT !.selection = SomeSelection(selection)]

Transaction_invert_NoSelection(tx, original, original_selection) ==
    LET r == ChangeSet_invert(tx.changes, original)
    IN  [tx |-> [changes |-> r.cs, selection |-> NoSelection],
         panicked |-> r.panicked]

Transaction_invert(tx, original, original_selection) ==
    LET r == ChangeSet_invert(tx.changes, original)
    IN  [tx |-> [changes |-> r.cs,
                 selection |-> SomeSelection(original_selection)],
         panicked |-> r.panicked]

Transaction_is_empty(tx) == is_empty(tx.changes)

\* ------------------------------------------------------------------------
\* history.rs: History
\* ------------------------------------------------------------------------
MAX_HISTORY_SIZE == 1000

History_new == [undo_stack |-> <<>>, redo_stack |-> <<>>]

\* push that evicts the newest entry instead of the oldest
History_push_DropNewest(h, tx) ==
    LET pushed == Append(h.undo_stack, tx)
    IN  [undo_stack |-> IF Len(pushed) > MAX_HISTORY_SIZE
                        THEN SubSeq(pushed, 1, Len(pushed) - 1) ELSE pushed,
         redo_stack |-> <<>>]

\* push that keeps the redo stack
History_push_KeepRedo(h, tx) ==
    LET pushed == Append(h.undo_stack, tx)
    IN  [undo_stack |-> IF Len(pushed) > MAX_HISTORY_SIZE
                        THEN Tail(pushed) ELSE pushed,
         redo_stack |-> h.redo_stack]

History_push(h, tx) ==
    LET pushed == Append(h.undo_stack, tx)
    IN  [undo_stack |-> IF Len(pushed) > MAX_HISTORY_SIZE
                        THEN Tail(pushed) ELSE pushed,
         redo_stack |-> <<>>]

History_push_redo(h, tx) == [h EXCEPT !.redo_stack = Append(@, tx)]

\* Vec::pop: some = FALSE stands for None, and the stack is left alone
pop(stack) ==
    IF stack = <<>> THEN [some |-> FALSE, rest |-> stack]
    ELSE [some |-> TRUE, top |-> stack[Len(stack)],
          rest |-> SubSeq(stack, 1, Len(stack) - 1)]

History_undo(h) ==
    LET r == pop(h.undo_stack)
    IN  [popped |-> r, hist |-> [h EXCEPT !.undo_stack = r.rest]]

History_redo(h) ==
    LET r == pop(h.redo_stack)
    IN  [popped |-> r, hist |-> [h EXCEPT !.redo_stack = r.rest]]

History_clear(h) == [undo_stack |-> <<>>, redo_stack |-> <<>>]

can_undo(h) == h.undo_stack # <<>>
can_redo(h) == h.redo_stack # <<>>

\* ------------------------------------------------------------------------
\* document.rs: Document
\* ------------------------------------------------------------------------
\* Document::new is from_text of the empty text. selections is the HashMap
\* from view id to Selection, a function on the views that have an entry.
\* path is "None" or "Some": the model does not tell paths apart.
Document_from_text(text) ==
    [rope |-> text, path |-> "None", modified |-> FALSE, selections |-> <<>>,
     history |-> History_new, last_saved_version |-> 0, version |-> 0]

Document_selection(d, view_id) ==
    IF view_id \in DOMAIN d.selections THEN d.selections[view_id]
    ELSE Selection_point(0)

\* set_selection that gives the selection to every view that has one
set_selection_AllViews(d, view_id, selection) ==
    [d EXCEPT !.selections =
        [v \in DOMAIN d.selections \cup {view_id} |-> selection]]

set_selection(d, view_id, selection) ==
    [d EXCEPT !.selections =
        [v \in DOMAIN d.selections \cup {view_id} |->
            IF v = view_id THEN selection ELSE d.selections[v]]]

\* a version that is not advanced, with modified recomputed all the same
bump_version_NoIncrement(d) ==
    [d EXCEPT !.modified = (d.version # d.last_saved_version)]

\* version += 1; modified = version != last_saved_version
bump_version(d) ==
    [d EXCEPT !.version = d.version + 1,
              !.modified = (d.version + 1 # d.last_saved_version)]

\* Each call returns the Document it leaves, its result, and whether it
\* panicked (the Document is then what the panic left behind).
Document_apply(d, tx, view_id) ==
    IF Transaction_is_empty(tx)
    THEN [doc |-> d, ret |-> FALSE, panicked |-> FALSE]
    ELSE LET old_selection == Document_selection(d, view_id)
             inverse == Transaction_invert(tx, d.rope, old_selection)
             applied == ChangeSet_apply(tx.changes, d.rope)
             d1 == [d EXCEPT !.rope = applied.rope]
             sel == Document_selection(d1, view_id)
             mapped == [i \in 1..Len(sel.ranges) |->
                          Range_new(map_pos(tx.changes, sel.ranges[i].anchor),
                                    map_pos(tx.changes, sel.ranges[i].head))]
             d2 == IF tx.selection.some
                   THEN set_selection(d1, view_id, tx.selection.sel)
                   ELSE set_selection(d1, view_id,
                                      Selection_transform(sel, mapped))
             d3 == [d2 EXCEPT !.history = History_push(d2.history, inverse.tx)]
         IN  IF inverse.panicked
             THEN [doc |-> d, ret |-> FALSE, panicked |-> TRUE]
             ELSE IF applied.panicked
             THEN [doc |-> d1, ret |-> FALSE, panicked |-> TRUE]
             ELSE [doc |-> bump_version(d3), ret |-> TRUE, panicked |-> FALSE]

\* undo that bumps the version even when there is nothing to undo
Document_undo_AlwaysBump(d, view_id) ==
    LET r == History_undo(d.history)
    IN  IF ~r.popped.some
        THEN [doc |-> bump_version(d), ret |-> FALSE, panicked |-> FALSE]
        ELSE LET tx == r.popped.top
                 d0 == [d EXCEPT !.history = r.hist]
                 old_sel == Document_selection(d0, view_id)
                 inverse == Transaction_invert(tx, d0.rope, old_sel)
                 applied == ChangeSet_apply(tx.changes, d0.rope)
                 d1 == [d0 EXCEPT !.rope = applied.rope]
                 d2 == IF tx.selection.some
                       THEN set_selection(d1, view_id, tx.selection.sel)
                       ELSE d1
                 d3 == [d2 EXCEPT !.history =
                           History_push_redo(d2.history, inverse.tx)]
             IN  IF inverse.panicked
                 THEN [doc |-> d0, ret |-> FALSE, panicked |-> TRUE]
                 ELSE IF applied.panicked
                 THEN [doc |-> d1, ret |-> FALSE, panicked |-> TRUE]
                 ELSE [doc |-> bump_version(d3), ret |-> TRUE,
                       panicked |-> FALSE]

Document_undo(d, view_id) ==
    LET r == History_undo(d.history)
    IN  IF ~r.popped.some
        THEN [doc |-> d, ret |-> FALSE, panicked |-> FALSE]
        ELSE LET tx == r.popped.top
                 d0 == [d EXCEPT !.history = r.hist]
                 old_sel == Document_selection(d0, view_id)
                 inverse == Transaction_invert(tx, d0.rope, old_sel)
                 applied == ChangeSet_apply(tx.changes, d0.rope)
                 d1 == [d0 EXCEPT !.rope = applied.rope]
                 d2 == IF tx.selection.some
                       THEN set_selection(d1, view_id, tx.selection.sel)
                       ELSE d1
                 d3 == [d2 EXCEPT !.history =
                           History_push_redo(d2.history, inverse.tx)]
             IN  IF inverse.panicked
                 THEN [doc |-> d0, ret |-> FALSE, panicked |-> TRUE]
                 ELSE IF applied.panicked
                 THEN [doc |-> d1, ret |-> FALSE, panicked |-> TRUE]
                 ELSE [doc |-> bump_version(d3), ret |-> TRUE,
                       panicked |-> FALSE]

\* redo that does not install the selection the transaction carries
Document_redo_NoSelection(d, view_id) ==
    LET r == History_redo(d.history)
    IN  IF ~r.popped.some
        THEN [doc |-> d, ret |-> FALSE, panicked |-> FALSE]
        ELSE LET tx == r.popped.top
                 d0 == [d EXCEPT !.history = r.hist]
                 old_sel == Document_selection(d0, view_id)
                 inverse == Transaction_invert(tx, d0.rope, old_sel)
                 applied == ChangeSet_apply(tx.changes, d0.rope)
                 d1 == [d0 EXCEPT !.rope = applied.rope]
                 d2 == d1
                 d3 == [d2 EXCEPT !.history =
                           History_push(d2.history, inverse.tx)]
             IN  IF inverse.panicked
                 THEN [doc |-> d0, ret |-> FALSE, panicked |-> TRUE]
                 ELSE IF applied.panicked
                 THEN [doc |-> d1, ret |-> FALSE, panicked |-> TRUE]
                 ELSE [doc |-> bump_version(d3), ret |-> TRUE,
                       panicked |-> FALSE]

Document_redo(d, view_id) ==
    LET r == History_redo(d.history)
    IN  IF ~r.popped.some
        THEN [doc |-> d, ret |-> FALSE, panicked |-> FALSE]
        ELSE LET tx == r.popped.top
                 d0 == [d EXCEPT !.history = r.hist]
                 old_sel == Document_selection(d0, view_id)
                 inverse == Transaction_invert(tx, d0.rope, old_sel)
                 applied == ChangeSet_apply(tx.changes, d0.rope)
                 d1 == [d0 EXCEPT !.rope = applied.rope]
                 d2 == IF tx.selection.some
                       THEN set_selection(d1, view_id, tx.selection.sel)
                       ELSE d1
                 d3 == [d2 EXCEPT !.history =
                           History_push(d2.history, inverse.tx)]
             IN  IF inverse.panicked
                 THEN [doc |-> d0, ret |-> FALSE, panicked |-> TRUE]
                 ELSE IF applied.panicked
                 THEN [doc |-> d1, ret |-> FALSE, panicked |-> TRUE]
                 ELSE [doc |-> bump_version(d3), ret |-> TRUE,
                       panicked |-> FALSE]

\* save that clears modified but forgets the version it saved
Document_save_KeepSavedVersion(d, written) ==
    IF d.path = "None" \/ ~written
    THEN [doc |-> d, ok |-> FALSE]
    ELSE [doc |-> [d EXCEPT !.modified = FALSE], ok |-> TRUE]

\* Document::save. written tells whether std::fs::write succeeded; ok is
\* whether save returned Ok(()). Without a path nothing is written.
Document_save(d, written) ==
    IF d.path = "None" \/ ~written
    THEN [doc |-> d, ok |-> FALSE]
    ELSE [doc |-> [d EXCEPT !.modified = FALSE,
                            !.last_saved_version = d.version],
          ok |-> TRUE]

\* Document::save_as: the path is set before the write is attempted
Document_save_as(d, written) == Document_save([d EXCEPT !.path = "Some"], written)

\* ------------------------------------------------------------------------
\* Inputs of the ChangeSet functions
\* ------------------------------------------------------------------------
\* every Change with start <= end <= doc_len and a text of at most MaxIns
ChangesFor(doc_len) ==
    {Change_replace(p[1], p[2], t) :
        p \in {q \in (0..doc_len) \X (0..doc_len) : q[1] <= q[2]},
        t \in SeqsUpTo(MaxIns)}

NoChange == Change_insert(0, <<>>)
NoOut == [kind |-> "none"]

\* texts handed to compose: runs of one character
RunsUpTo(n) == {[i \in 1..k |-> "a"] : k \in 0..n}

ComposeChangesFor(doc_len) ==
    {Change_replace(p[1], p[2], t) :
        p \in {q \in (0..doc_len) \X (0..doc_len) : q[1] <= q[2]},
        t \in RunsUpTo(MaxIns)}

\* values of the variables a specification does not use
IdleCs == cs_in = [buf |-> <<>>, ch1 |-> NoChange, ch2 |-> NoChange,
                   len2 |-> 0, build |-> "debug"]
          /\ cs_out = NoOut /\ cs_pc = "idle"
IdleHist == hist = History_new /\ hist_n = 0
            /\ hist_last = [op |-> "new", tx |-> 0, before |-> History_new]
IdleDoc == doc = NoOut /\ last_call = NoOut /\ undo_log = <<>>
           /\ redo_log = <<>> /\ steps = 0

\* no Selection call made yet; Selection::default() is point(0)
NoSelCall == [op |-> "default", before_len |-> 0, before_idx |-> 0,
              given |-> 0, moved |-> <<>>, panicked |-> FALSE]
IdleSel == sel_cur = Selection_point(0) /\ sel_last = NoSelCall
IdleEd == editor = NoOut /\ counters = NoOut /\ ed_last = NoOut

cs_vars == <<cs_in, cs_out, cs_pc>>
hist_vars == <<hist, hist_last, hist_n>>
doc_vars == <<doc, last_call, undo_log, redo_log, steps>>
sel_vars == <<sel_cur, sel_last>>
ed_vars == <<editor, counters, ed_last>>

\* ------------------------------------------------------------------------
\* Specification SpecInvert: apply a changeset built from one Change, then
\* apply its inverse (transaction.rs, test_invert)
\* ------------------------------------------------------------------------
InitInvert ==
    /\ \E buf \in SeqsUpTo(MaxLen) : \E ch \in ChangesFor(Len(buf)) :
          cs_in = [buf |-> buf, ch1 |-> ch, ch2 |-> NoChange,
                   len2 |-> 0, build |-> "debug"]
    /\ cs_out = NoOut
    /\ cs_pc = "start"
    /\ IdleHist /\ IdleDoc /\ IdleSel /\ IdleEd

RoundTrip ==
    /\ cs_pc = "start"
    /\ LET cs == from_change(Len(cs_in.buf), cs_in.ch1)
           inv == ChangeSet_invert(cs, cs_in.buf)
           applied == ChangeSet_apply(cs, cs_in.buf)
           back == ChangeSet_apply(inv.cs, applied.rope)
       IN  cs_out' = [kind |-> "roundtrip", cs |-> cs, inverse |-> inv.cs,
                      applied |-> applied.rope, back |-> back.rope,
                      panicked |-> inv.panicked \/ applied.panicked
                                   \/ back.panicked]
    /\ cs_pc' = "inverted"
    /\ UNCHANGED <<cs_in, hist_vars, doc_vars, sel_vars, ed_vars>>

NextInvert == RoundTrip

SpecInvert == InitInvert /\ [][NextInvert]_vars

\* C1: applying a changeset built from a single in-bounds Change and then
\* its inverse (taken against the original buffer) gives back the buffer.
C1_InvertRoundTrip ==
    cs_pc = "inverted" => ~cs_out.panicked /\ cs_out.back = cs_in.buf

\* a replace that deletes and inserts in the middle of the buffer
C1_Witness ==
    /\ cs_pc = "inverted"
    /\ cs_in.ch1.start > 0
    /\ cs_in.ch1.end > cs_in.ch1.start
    /\ cs_in.ch1.end < Len(cs_in.buf)
    /\ cs_in.ch1.insert # <<>>
    /\ cs_out.applied # cs_in.buf
    /\ cs_out.back = cs_in.buf

\* ------------------------------------------------------------------------
\* Specification SpecCompose: compose two changesets, each built from one
\* Change, and compare with applying them one after the other
\* ------------------------------------------------------------------------
InitCompose ==
    /\ \E buf \in SeqsUpTo(MaxLen) : \E ch \in ComposeChangesFor(Len(buf)) :
       \E build \in Builds :
          cs_in = [buf |-> buf, ch1 |-> ch, ch2 |-> NoChange,
                   len2 |-> 0, build |-> build]
    /\ cs_out = NoOut
    /\ cs_pc = "start"
    /\ IdleHist /\ IdleDoc /\ IdleSel /\ IdleEd

Compose ==
    /\ cs_pc = "start"
    /\ \E len2 \in 0..MaxLen : \E ch2 \in ComposeChangesFor(len2) :
        LET c1 == from_change(Len(cs_in.buf), cs_in.ch1)
            c2 == from_change(len2, ch2)
            res == compose(c1, c2, cs_in.build)
            first == ChangeSet_apply(c1, cs_in.buf)
            second == ChangeSet_apply(c2, first.rope)
            direct == ChangeSet_apply(res.cs, cs_in.buf)
        IN  /\ cs_in' = [cs_in EXCEPT !.ch2 = ch2, !.len2 = len2]
            /\ cs_out' = [kind |-> "compose", c1 |-> c1, c2 |-> c2, res |-> res,
                           seq |-> second, direct |-> direct]
    /\ cs_pc' = "composed"
    /\ UNCHANGED <<hist_vars, doc_vars, sel_vars, ed_vars>>

NextCompose == Compose

SpecCompose == InitCompose /\ [][NextCompose]_vars

\* C5: for C1 = from_change(len(B), ch1) and C2 = from_change(C1.new_len(),
\* ch2), compose returns a changeset whose application to B gives the text
\* of applying C1 and then C2.
C5_ComposeEqualsSequence ==
    (cs_pc = "composed" /\ new_len(cs_out.c1) = cs_out.c2.doc_len)
        => /\ cs_out.res.kind = "Some"
           /\ ~cs_out.direct.panicked
           /\ cs_out.direct.rope = cs_out.seq.rope

\* C6: compose returns no result exactly when self.new_len() differs from
\* other.doc_len, and never faults.
C6_ComposeNoneIffMismatch ==
    cs_pc = "composed"
        => /\ cs_out.res.kind # "Panic"
           /\ (cs_out.res.kind = "None")
                <=> (new_len(cs_out.c1) # cs_out.c2.doc_len)

\* ------------------------------------------------------------------------
\* Specification SpecHist: a History on its own. Transactions are opaque to
\* History and stand as numbers. The History starts empty or as
\* MAX_HISTORY_SIZE - 1 pushes leave it.
\* ------------------------------------------------------------------------
\* the History that push(1), ..., push(k) leave, for k <= MAX_HISTORY_SIZE
pushed_up_to(k) == [undo_stack |-> [i \in 1..k |-> i], redo_stack |-> <<>>]

HistStart == {0, MAX_HISTORY_SIZE - 1}

InitHist ==
    /\ \E k \in HistStart : hist = pushed_up_to(k)
    /\ hist_last = [op |-> "new", tx |-> 0, before |-> History_new]
    /\ hist_n = 0
    /\ IdleCs /\ IdleDoc /\ IdleSel /\ IdleEd

\* the transaction handed to the next call
NextTx == MAX_HISTORY_SIZE + hist_n + 1

HistCall(op, tx, h) ==
    /\ hist_n < MaxHistCalls
    /\ hist' = h
    /\ hist_last' = [op |-> op, tx |-> tx, before |-> hist]
    /\ hist_n' = hist_n + 1
    /\ UNCHANGED <<cs_vars, doc_vars, sel_vars, ed_vars>>

HistPush == HistCall("push", NextTx, History_push(hist, NextTx))
HistPushRedo == HistCall("push_redo", NextTx, History_push_redo(hist, NextTx))
HistUndo == HistCall("undo", 0, History_undo(hist).hist)
HistRedo == HistCall("redo", 0, History_redo(hist).hist)
HistClear == HistCall("clear", 0, History_clear(hist))

NextHist == HistPush \/ HistPushRedo \/ HistUndo \/ HistRedo \/ HistClear

SpecHist == InitHist /\ [][NextHist]_vars

\* C7: the undo stack never holds more than 1000 transactions; a push onto
\* a stack of 1000 removes the oldest entry, keeps the pushed one on top
\* and keeps the order of the other 999; a push onto a shorter stack only
\* appends.
C7_UndoStackBounded ==
    /\ Len(hist.undo_stack) <= 1000
    /\ hist_last.op = "push" =>
         LET old == hist_last.before.undo_stack
         IN  IF Len(old) = 1000
             THEN /\ Len(hist.undo_stack) = 1000
                  /\ hist.undo_stack[1000] = hist_last.tx
                  /\ \A i \in 1..999 : hist.undo_stack[i] = old[i + 1]
             ELSE hist.undo_stack = Append(old, hist_last.tx)

\* a push onto a full undo stack
C7_Witness ==
    /\ hist_last.op = "push"
    /\ Len(hist_last.before.undo_stack) = 1000
    /\ Len(hist.undo_stack) = 1000

\* ------------------------------------------------------------------------
\* Specification Spec: a Document and the calls made on it
\* ------------------------------------------------------------------------
\* the views of the Document, and those among them that edit it
Views == {1, 2}
Editors == {1}

InitTexts == {<<>>, <<"a", "b">>}

\* the selection a caller installs with Transaction::with_selection
Installed == Selection_new(<<Range_new(2, 1), Range_point(0)>>, 1)

\* The transactions handed to a Document whose buffer has doc_len
\* characters, as a Change and the selection given to with_selection:
\* the change that changes nothing, an insertion in the middle, the
\* deletion of the last character, the replacement of the second half by
\* two characters, and the replacement of the first character together
\* with a selection.
DocEdits(doc_len) ==
    {[change |-> Change_insert(0, <<>>), selection |-> NoSelection],
     [change |-> Change_insert(doc_len \div 2, <<"b">>),
      selection |-> NoSelection]}
    \cup (IF doc_len = 0 THEN {} ELSE
          {[change |-> Change_delete(doc_len - 1, doc_len),
            selection |-> NoSelection],
           [change |-> Change_replace(doc_len \div 2, doc_len, <<"b", "a">>),
            selection |-> NoSelection],
           [change |-> Change_replace(0, 1, <<"a">>),
            selection |-> SomeSelection(Installed)]})

NoTx == Transaction_new(ChangeSet_new(0))
NoEntry == [some |-> FALSE]
top_of(log) == IF log = <<>> THEN NoEntry ELSE [some |-> TRUE, e |-> log[Len(log)]]
but_last(log) == SubSeq(log, 1, Len(log) - 1)

NoCall == [op |-> "new", view |-> 0, ret |-> FALSE, before |-> NoOut,
           tx |-> NoTx, ulog |-> NoEntry, rlog |-> NoEntry,
           prev_op |-> "new", prev_view |-> 0, prev_ret |-> FALSE,
           panicked |-> FALSE]

Init ==
    /\ \E text \in InitTexts : doc = Document_from_text(text)
    /\ last_call = NoCall
    /\ undo_log = <<>>
    /\ redo_log = <<>>
    /\ steps = 0
    /\ IdleCs /\ IdleHist /\ IdleSel /\ IdleEd

\* what every call records
Called(op, view, r, tx) ==
    /\ doc' = r.doc
    /\ last_call' = [op |-> op, view |-> view, ret |-> r.ret, before |-> doc,
                     tx |-> tx, ulog |-> top_of(undo_log),
                     rlog |-> top_of(redo_log),
                     prev_op |-> last_call.op, prev_view |-> last_call.view,
                     prev_ret |-> last_call.ret, panicked |-> r.panicked]
    /\ steps' = steps + 1
    /\ UNCHANGED <<cs_vars, hist_vars, sel_vars, ed_vars>>

\* the entry a successful call leaves in the logs: the buffer and the
\* view's selection before the call
Entry(op, view) ==
    [rope |-> doc.rope, sel |-> Document_selection(doc, view), view |-> view,
     by |-> op,
     after_apply |-> /\ last_call.op = "apply" /\ last_call.ret
                     /\ last_call.view = view]

\* Document::apply with a transaction built by from_change for the current
\* buffer length, with or without a selection
Apply(view, change, selection) ==
    /\ steps < MaxSteps
    /\ LET tx0 == Transaction_change(Len(doc.rope), change)
           tx == IF selection.some THEN with_selection(tx0, selection.sel)
                 ELSE tx0
           r == Document_apply(doc, tx, view)
       IN  /\ Called("apply", view, r, tx)
           /\ undo_log' = IF r.ret THEN Append(undo_log, Entry("apply", view))
                          ELSE undo_log
           /\ redo_log' = IF r.ret THEN <<>> ELSE redo_log

Undo(view) ==
    /\ steps < MaxSteps
    /\ LET r == Document_undo(doc, view)
       IN  /\ Called("undo", view, r, NoTx)
           /\ undo_log' = IF r.ret THEN but_last(undo_log) ELSE undo_log
           /\ redo_log' = IF r.ret THEN Append(redo_log, Entry("undo", view))
                          ELSE redo_log

\* redo_log follows the redo stack as History is specified: a redo takes
\* one entry off it and leaves the others
Redo(view) ==
    /\ steps < MaxSteps
    /\ LET r == Document_redo(doc, view)
       IN  /\ Called("redo", view, r, NoTx)
           /\ undo_log' = IF r.ret THEN Append(undo_log, Entry("redo", view))
                          ELSE undo_log
           /\ redo_log' = IF r.ret THEN but_last(redo_log) ELSE redo_log

Next ==
    \/ \E view \in Editors : \E edit \in DocEdits(Len(doc.rope)) :
          Apply(view, edit.change, edit.selection)
    \/ \E view \in Views : Undo(view)
    \/ \E view \in Views : Redo(view)

Spec == Init /\ [][Next]_vars

\* C2: an undo that takes back an apply made on the same view returns true
\* and leaves the buffer and the view's selection as they were immediately
\* before that apply; so n undos after n applies (n <= 1000) restore the
\* buffer of before the first apply.
C2_UndoRestoresApply ==
    (/\ last_call.op = "undo"
     /\ last_call.ulog.some
     /\ last_call.ulog.e.by = "apply"
     /\ last_call.ulog.e.view = last_call.view
     /\ Len(undo_log) < 1000)
        => /\ last_call.ret
           /\ doc.rope = last_call.ulog.e.rope
           /\ Document_selection(doc, last_call.view) = last_call.ulog.e.sel

\* the second of two consecutive undos, each taking back an apply, that
\* changes both the buffer and the selection
C2_Witness ==
    /\ last_call.op = "undo" /\ last_call.ret
    /\ last_call.prev_op = "undo" /\ last_call.prev_ret
    /\ last_call.prev_view = last_call.view
    /\ last_call.ulog.some
    /\ last_call.ulog.e.by = "apply"
    /\ last_call.ulog.e.view = last_call.view
    /\ doc.rope # last_call.before.rope
    /\ Document_selection(doc, last_call.view)
         # Document_selection(last_call.before, last_call.view)

\* C3: redo takes one entry off the redo stack and leaves the others, so
\* the redo stack holds one entry per undone edit not yet redone, and a
\* redo of an undone edit returns true and restores the buffer of before
\* the undo.
C3_RedoKeepsOtherEntries ==
    /\ Len(doc.history.redo_stack) = Len(redo_log)
    /\ (last_call.op = "redo" /\ last_call.rlog.some)
         => /\ last_call.ret
            /\ doc.rope = last_call.rlog.e.rope

\* C4: undo right after a successful apply returns true, and redo right
\* after that undo returns true and leaves the buffer and the view's
\* selection as the apply left them.
C4_RedoOfUndoIsIdentity ==
    /\ (/\ last_call.op = "undo"
        /\ last_call.prev_op = "apply" /\ last_call.prev_ret
        /\ last_call.prev_view = last_call.view)
         => last_call.ret
    /\ (/\ last_call.op = "redo"
        /\ last_call.prev_op = "undo" /\ last_call.prev_ret
        /\ last_call.prev_view = last_call.view
        /\ last_call.rlog.some
        /\ last_call.rlog.e.after_apply
        /\ last_call.rlog.e.view = last_call.view)
         => /\ last_call.ret
            /\ doc.rope = last_call.rlog.e.rope
            /\ Document_selection(doc, last_call.view) = last_call.rlog.e.sel

\* apply, undo, redo on one view, where the undo changed both the buffer
\* and the selection
C4_Witness ==
    /\ last_call.op = "redo" /\ last_call.ret
    /\ last_call.prev_op = "undo" /\ last_call.prev_ret
    /\ last_call.prev_view = last_call.view
    /\ last_call.rlog.some
    /\ last_call.rlog.e.after_apply
    /\ last_call.rlog.e.view = last_call.view
    /\ last_call.rlog.e.rope # last_call.before.rope
    /\ last_call.rlog.e.sel
         # Document_selection(last_call.before, last_call.view)

\* C8: after an apply that returns true the redo stack is empty; an apply
\* that returns false leaves the redo stack as it was.
C8_ApplyClearsRedo ==
    last_call.op = "apply"
        => IF last_call.ret
           THEN doc.history.redo_stack = <<>> /\ ~can_redo(doc.history)
           ELSE doc.history.redo_stack = last_call.before.history.redo_stack

\* a successful apply made while the redo stack held two entries
C8_Witness ==
    /\ last_call.op = "apply" /\ last_call.ret
    /\ Len(last_call.before.history.redo_stack) >= 2

\* C9: undo on an empty undo stack and redo on an empty redo stack return
\* false and leave the whole Document (buffer, selections, both stacks,
\* version, modified) unchanged.
C9_EmptyStackNoOp ==
    /\ (last_call.op = "undo" /\ last_call.before.history.undo_stack = <<>>)
         => ~last_call.ret /\ doc = last_call.before
    /\ (last_call.op = "redo" /\ last_call.before.history.redo_stack = <<>>)
         => ~last_call.ret /\ doc = last_call.before

\* an undo on an empty undo stack of a Document that has been edited
C9_Witness ==
    /\ last_call.op = "undo"
    /\ last_call.before.history.undo_stack = <<>>
    /\ last_call.before.history.redo_stack # <<>>
    /\ last_call.before.version > 0

\* C10: apply of a transaction whose ops are all Retain (or that has no
\* ops) returns false and leaves the whole Document unchanged.
C10_RetainOnlyNoOp ==
    (/\ last_call.op = "apply"
     /\ \A i \in 1..Len(last_call.tx.changes.ops) :
            last_call.tx.changes.ops[i].kind = "Retain")
        => ~last_call.ret /\ doc = last_call.before

\* an apply of a transaction made of one Retain, on an edited Document
C10_Witness ==
    /\ last_call.op = "apply"
    /\ Len(last_call.tx.changes.ops) = 1
    /\ last_call.tx.changes.ops[1].kind = "Retain"
    /\ last_call.before.history.undo_stack # <<>>
    /\ last_call.before.history.redo_stack # <<>>

\* ------------------------------------------------------------------------
\* Specification SpecSave: a Document that is edited and saved. Every write
\* to the file may fail.
\* ------------------------------------------------------------------------
\* the edits made between saves: an insertion in the middle and, on a
\* non-empty buffer, the deletion of the last character
SaveEdits(doc_len) ==
    {Change_insert(doc_len \div 2, <<"b">>)}
    \cup (IF doc_len = 0 THEN {} ELSE {Change_delete(doc_len - 1, doc_len)})

Save(written) ==
    /\ steps < MaxSteps
    /\ LET s == Document_save(doc, written)
       IN  Called("save", 0, [doc |-> s.doc, ret |-> s.ok, panicked |-> FALSE], NoTx)
    /\ UNCHANGED <<undo_log, redo_log>>

SaveAs(written) ==
    /\ steps < MaxSteps
    /\ LET s == Document_save_as(doc, written)
       IN  Called("save_as", 0, [doc |-> s.doc, ret |-> s.ok, panicked |-> FALSE], NoTx)
    /\ UNCHANGED <<undo_log, redo_log>>

NextSave ==
    \/ \E view \in Editors : \E change \in SaveEdits(Len(doc.rope)) :
          Apply(view, change, NoSelection)
    \/ \E view \in Editors : Undo(view)
    \/ \E view \in Editors : Redo(view)
    \/ \E written \in BOOLEAN : Save(written)
    \/ \E written \in BOOLEAN : SaveAs(written)

SpecSave == Init /\ [][NextSave]_vars

\* C11: in every state reached from Document::new / from_text by apply,
\* undo, redo and save (succeeding or failing), modified is true exactly
\* when version differs from last_saved_version.
C11_ModifiedIffVersionDiffers ==
    doc.modified = (doc.version # doc.last_saved_version)

\* an undo made after a successful save of an edited Document, which makes
\* the Document modified again
C11_Witness ==
    /\ last_call.op = "undo" /\ last_call.ret
    /\ ~last_call.before.modified
    /\ last_call.before.last_saved_version > 0
    /\ doc.modified
    /\ doc.version > doc.last_saved_version

\* ------------------------------------------------------------------------
\* Inputs of the Selection functions
\* ------------------------------------------------------------------------
Ranges == {Range_new(a, h) : a \in 0..MaxPos, h \in 0..MaxPos}

\* the lists of ranges handed to Selection::new
RangeLists == UNION {[1..k -> Ranges] : k \in 0..MaxRanges}

\* ------------------------------------------------------------------------
\* Specification SpecNormalize: Selection::normalize on a list of ranges,
\* as Selection::new runs it (primary index 0, the index asked for set
\* afterwards) and as Selection::replace runs it (on the new ranges with
\* the primary index the Selection had), and a second time on the result
\* ------------------------------------------------------------------------
NormalizeCallers == {"new", "replace"}

InitNormalize ==
    /\ \E ranges \in RangeLists : \E idx \in 0..MaxRanges :
       \E via \in NormalizeCallers :
          cs_in = [ranges |-> ranges, idx |-> idx, via |-> via]
    /\ cs_out = NoOut
    /\ cs_pc = "start"
    /\ IdleHist /\ IdleDoc /\ IdleSel /\ IdleEd

NormalizeTwice ==
    /\ cs_pc = "start"
    /\ LET once == IF cs_in.via = "new"
                   THEN [sel |-> Selection_new(cs_in.ranges, cs_in.idx),
                         panicked |-> FALSE]
                   ELSE Selection_replace([ranges |-> <<>>,
                                           primary_idx |-> cs_in.idx],
                                          cs_in.ranges)
           twice == normalize(once.sel)
       IN  cs_out' = [kind |-> "normalize", once |-> once, twice |-> twice]
    /\ cs_pc' = "normalized"
    /\ UNCHANGED <<cs_in, hist_vars, doc_vars, sel_vars, ed_vars>>

NextNormalize == NormalizeTwice

SpecNormalize == InitNormalize /\ [][NextNormalize]_vars

\* the offsets inside the half-open spans [start, end) of a list of ranges
covered(ranges) ==
    {p \in 0..MaxPos : \E i \in 1..Len(ranges) : Range_contains(ranges[i], p)}

\* C13: for any list of input ranges (any order, any overlaps, either
\* direction) the offsets covered by the ranges that normalization
\* produces are exactly the offsets covered by the input ranges.
C13_NormalizeKeepsCoverage ==
    (cs_pc = "normalized" /\ ~cs_out.once.panicked)
        => covered(cs_out.once.sel.ranges) = covered(cs_in.ranges)

\* three ranges given out of order, the longest swallowing a later shorter
\* one, normalized to a single range
C13_Witness ==
    /\ cs_pc = "normalized" /\ ~cs_out.once.panicked
    /\ Len(cs_in.ranges) = 3
    /\ Len(cs_out.once.sel.ranges) = 1
    /\ cs_in.ranges # sort_by_key(cs_in.ranges)
    /\ \E i \in 1..3 : \E k \in 1..3 :
          /\ Range_start(cs_in.ranges[i]) < Range_start(cs_in.ranges[k])
          /\ Range_end(cs_in.ranges[k]) < Range_end(cs_in.ranges[i])
    /\ covered(cs_in.ranges) # {}

\* C14: normalizing the result of a normalization changes nothing: the
\* ranges (anchors and heads) and the primary index stay as they are.
C14_NormalizeIdempotent ==
    (cs_pc = "normalized" /\ ~cs_out.once.panicked)
        => /\ ~cs_out.twice.panicked
           /\ cs_out.twice.sel = cs_out.once.sel

\* a normalized selection of several ranges, one of them backward, whose
\* primary range is a point that is not the first range
C14_Witness ==
    /\ cs_pc = "normalized" /\ ~cs_out.once.panicked
    /\ Len(cs_out.once.sel.ranges) >= 2
    /\ cs_out.once.sel.primary_idx >= 1
    /\ primary(cs_out.once.sel).anchor = primary(cs_out.once.sel).head
    /\ \E i \in 1..Len(cs_out.once.sel.ranges) :
          cs_out.once.sel.ranges[i].anchor > cs_out.once.sel.ranges[i].head
    /\ cs_out.once.sel.ranges # cs_in.ranges
    /\ cs_out.twice.sel = cs_out.once.sel

\* ------------------------------------------------------------------------
\* Specification SpecSel: a Selection built by Selection::new and the calls
\* made on it. A call that panics ends the run.
\* ------------------------------------------------------------------------
\* the lists of ranges handed to Selection::replace: none, one or two ranges
ReplaceLists ==
    {<<>>} \cup {<<r>> : r \in Ranges} \cup {<<r1, r2>> : r1 \in Ranges, r2 \in Ranges}

\* the functions handed to Selection::transform move the two ends of a
\* range by a map g of offsets, as cursor movement and Document::apply do
OffsetMaps == [0..MaxPos -> 0..MaxPos]
moved_by(g, r) == Range_new(g[r.anchor], g[r.head])

InitSel ==
    /\ \E ranges \in RangeLists : \E idx \in 0..MaxRanges :
          /\ sel_cur = Selection_new(ranges, idx)
          /\ sel_last = [op |-> "new", before_len |-> 0, before_idx |-> 0,
                         given |-> Len(ranges), moved |-> <<>>,
                         panicked |-> FALSE]
    /\ IdleCs /\ IdleHist /\ IdleDoc /\ IdleEd

\* What every call records: the number of ranges and the primary index of
\* the Selection before it, the number of ranges it was given, the range
\* the primary range of before the call is expected in (itself for
\* add_cursor and add_range, its image for transform), and whether the call
\* panicked; r is the Selection the call leaves.
SelCall(op, r, given, moved) ==
    /\ ~sel_last.panicked
    /\ sel_cur' = r.sel
    /\ sel_last' = [op |-> op, before_len |-> Len(sel_cur.ranges),
                    before_idx |-> sel_cur.primary_idx, given |-> given,
                    moved |-> moved, panicked |-> r.panicked]
    /\ UNCHANGED <<cs_vars, hist_vars, doc_vars, ed_vars>>

SelAddCursor(pos) ==
    SelCall("add_cursor", Selection_add_cursor(sel_cur, pos), 1,
            <<primary(sel_cur)>>)

SelAddRange(range) ==
    SelCall("add_range", Selection_add_range(sel_cur, range), 1,
            <<primary(sel_cur)>>)

SelReplace(ranges) ==
    SelCall("replace", Selection_replace(sel_cur, ranges), Len(ranges), <<>>)

SelSetPrimaryIdx(idx) ==
    SelCall("set_primary_idx",
            [sel |-> set_primary_idx(sel_cur, idx), panicked |-> FALSE],
            0, <<>>)

SelTransform(g) ==
    SelCall("transform",
            [sel |-> Selection_transform(sel_cur,
                        [i \in 1..Len(sel_cur.ranges) |->
                            moved_by(g, sel_cur.ranges[i])]),
             panicked |-> FALSE],
            0, <<moved_by(g, primary(sel_cur))>>)

SelCollapse ==
    SelCall("collapse",
            [sel |-> Selection_collapse(sel_cur), panicked |-> FALSE],
            0, <<Range_collapse(primary(sel_cur))>>)

NextSel ==
    \/ \E pos \in 0..MaxPos : SelAddCursor(pos)
    \/ \E range \in Ranges : SelAddRange(range)
    \/ \E ranges \in ReplaceLists : SelReplace(ranges)
    \/ \E idx \in 0..MaxRanges : SelSetPrimaryIdx(idx)
    \/ \E g \in OffsetMaps : SelTransform(g)
    \/ SelCollapse

SpecSel == InitSel /\ [][NextSel]_vars

\* C12: after Selection::new, add_cursor, add_range, replace, transform and
\* collapse, for any input ranges (the empty list included), the range list
\* is non-empty, sorted by (start, end), and each range ends strictly
\* before the next one starts.
C12_RangesSortedDisjoint ==
    ~sel_last.panicked =>
        /\ sel_cur.ranges # <<>>
        /\ \A i \in 1..(Len(sel_cur.ranges) - 1) :
              /\ key_le(sel_cur.ranges[i], sel_cur.ranges[i + 1])
              /\ Range_end(sel_cur.ranges[i]) < Range_start(sel_cur.ranges[i + 1])

\* an add_range that joins the two ranges of the selection into one
C12_Witness ==
    /\ sel_last.op = "add_range"
    /\ ~sel_last.panicked
    /\ sel_last.before_len = 2
    /\ Len(sel_cur.ranges) = 1

\* C15: the primary range follows the previous primary through every
\* mutation: after add_cursor and add_range it is the resulting range that
\* contains or equals the range that was primary before the call, after
\* transform(f) (collapse included) the one that contains or equals the
\* image under f of the previous primary.
C15_PrimaryFollowsPrevious ==
    (/\ sel_last.op \in {"add_cursor", "add_range", "transform", "collapse"}
     /\ ~sel_last.panicked)
        => /\ sel_cur.primary_idx < Len(sel_cur.ranges)
           /\ Range_start(primary(sel_cur)) <= Range_start(sel_last.moved[1])
           /\ Range_end(sel_last.moved[1]) <= Range_end(primary(sel_cur))

\* ------------------------------------------------------------------------
\* Specification SpecMapPos: ChangeSet::map_pos on every offset of the
\* document, for a changeset built by from_change and for a changeset
\* given as a sequence of ops
\* ------------------------------------------------------------------------
\* the length of the document a sequence of ops is for: its Retain and
\* Delete lengths
RECURSIVE old_len_ops(_, _)
old_len_ops(ops, i) ==
    IF i > Len(ops) THEN 0
    ELSE (IF ops[i].kind = "Insert" THEN 0 ELSE ops[i].n)
         + old_len_ops(ops, i + 1)

\* the ops a changeset for a document of doc_len characters can hold
OpsFor(doc_len) ==
    {Retain(n) : n \in 1..doc_len} \cup {Delete(n) : n \in 1..doc_len}
    \cup {Insert(t) : t \in RunsUpTo(MaxIns) \ {<<>>}}

\* the well-formed sequences of at most MaxOps ops for doc_len characters
WellFormedOps(doc_len) ==
    {ops \in UNION {[1..k -> OpsFor(doc_len)] : k \in 0..MaxOps} :
        old_len_ops(ops, 1) = doc_len}

InitMapPos ==
    /\ \E doc_len \in 0..MaxLen :
          \/ \E ch \in ChangesFor(doc_len) :
                cs_in = [from |-> "from_change", change |-> ch,
                         cs |-> from_change(doc_len, ch)]
          \/ \E ops \in WellFormedOps(doc_len) :
                cs_in = [from |-> "ops", change |-> NoChange,
                         cs |-> [doc_len |-> doc_len, ops |-> ops]]
    /\ cs_out = NoOut
    /\ cs_pc = "start"
    /\ IdleHist /\ IdleDoc /\ IdleSel /\ IdleEd

\* map_pos of every offset 0..doc_len
MapPos ==
    /\ cs_pc = "start"
    /\ cs_out' = [kind |-> "map_pos",
                  mapped |-> [p \in 0..cs_in.cs.doc_len |-> map_pos(cs_in.cs, p)]]
    /\ cs_pc' = "mapped"
    /\ UNCHANGED <<cs_in, hist_vars, doc_vars, sel_vars, ed_vars>>

NextMapPos == MapPos

SpecMapPos == InitMapPos /\ [][NextMapPos]_vars

\* C16: for a changeset built by from_change, and for every well-formed
\* sequence of ops, p <= q <= doc_len implies map_pos(p) <= map_pos(q).
C16_MapPosMonotonic ==
    cs_pc = "mapped" =>
        \A p \in 0..cs_in.cs.doc_len : \A q \in p..cs_in.cs.doc_len :
            cs_out.mapped[p] <= cs_out.mapped[q]

\* a changeset that deletes, inserts and retains, under which two offsets
\* collapse into one and two others stay apart
C16_Witness ==
    /\ cs_pc = "mapped"
    /\ \E i \in 1..Len(cs_in.cs.ops) : cs_in.cs.ops[i].kind = "Delete"
    /\ \E i \in 1..Len(cs_in.cs.ops) : cs_in.cs.ops[i].kind = "Insert"
    /\ \E i \in 1..Len(cs_in.cs.ops) : cs_in.cs.ops[i].kind = "Retain"
    /\ \E p \in 0..cs_in.cs.doc_len : \E q \in 0..cs_in.cs.doc_len :
          p < q /\ cs_out.mapped[p] = cs_out.mapped[q]
    /\ \E p \in 0..cs_in.cs.doc_len : \E q \in 0..cs_in.cs.doc_len :
          p < q /\ cs_out.mapped[p] < cs_out.mapped[q]

\* C17: for from_change(n, insert(i, text)) with k >= 1 characters of
\* text, map_pos(p) = p + k for i <= p <= n and map_pos(p) = p for p < i.
C17_InsertShiftsPositions ==
    (/\ cs_pc = "mapped"
     /\ cs_in.from = "from_change"
     /\ cs_in.change.start = cs_in.change.end
     /\ cs_in.change.insert # <<>>)
        => \A p \in 0..cs_in.cs.doc_len :
              cs_out.mapped[p] = IF p >= cs_in.change.start
                                 THEN p + Len(cs_in.change.insert)
                                 ELSE p

\* C18: for from_change(n, delete(a, b)) with a < b <= n, map_pos(p) = p
\* for p <= a, a for a < p < b, and p - (b - a) for b <= p <= n.
C18_DeleteShrinksPositions ==
    (/\ cs_pc = "mapped"
     /\ cs_in.from = "from_change"
     /\ cs_in.change.start < cs_in.change.end
     /\ cs_in.change.insert = <<>>)
        => \A p \in 0..cs_in.cs.doc_len :
              cs_out.mapped[p] =
                 IF p <= cs_in.change.start THEN p
                 ELSE IF p < cs_in.change.end THEN cs_in.change.start
                 ELSE p - (cs_in.change.end - cs_in.change.start)

\* C19: for a Change with start <= end <= doc_len, from_change gives the
\* ops Retain(start) if start > 0, Delete(end - start) if end > start,
\* Insert(text) if the text is not empty, Retain(doc_len - end) if
\* end < doc_len, in that order and no others; the Retain and Delete
\* lengths sum to doc_len, and new_len() is doc_len - (end - start) plus
\* the number of characters of the text.
C19_FromChangeShape ==
    cs_pc = "inverted" =>
        LET ch == cs_in.ch1
            doc_len == Len(cs_in.buf)
            ops == cs_out.cs.ops
            \* where each op sits when it is there
            at_delete == IF ch.start > 0 THEN 2 ELSE 1
            at_insert == at_delete + (IF ch.end > ch.start THEN 1 ELSE 0)
            at_tail == at_insert + (IF ch.insert # <<>> THEN 1 ELSE 0)
        IN  /\ cs_out.cs.doc_len = doc_len
            /\ Len(ops) = at_tail - (IF ch.end < doc_len THEN 0 ELSE 1)
            /\ ch.start > 0 => ops[1] = Retain(ch.start)
            /\ ch.end > ch.start => ops[at_delete] = Delete(ch.end - ch.start)
            /\ ch.insert # <<>> => ops[at_insert] = Insert(ch.insert)
            /\ ch.end < doc_len => ops[at_tail] = Retain(doc_len - ch.end)
            /\ old_len_ops(ops, 1) = doc_len
            /\ new_len(cs_out.cs)
                 = doc_len - (ch.end - ch.start) + Len(ch.insert)

\* a replacement in the middle of the buffer, which gives all four ops,
\* with a text longer than the span it replaces
C19_Witness ==
    /\ cs_pc = "inverted"
    /\ Len(cs_out.cs.ops) = 4
    /\ cs_in.ch1.start > 0
    /\ cs_in.ch1.end < Len(cs_in.buf)
    /\ Len(cs_in.ch1.insert) > cs_in.ch1.end - cs_in.ch1.start
    /\ new_len(cs_out.cs) > Len(cs_in.buf)

\* C20: apply, undo and redo made for a view change the selection stored
\* for that view only: every other view has a stored selection after the
\* call exactly when it had one before, and it is the same selection, also
\* when the edit leaves the buffer shorter than that selection's offsets.
C20_OtherViewsSelectionKept ==
    last_call.op \in {"apply", "undo", "redo"} =>
        \A v2 \in Views \ {last_call.view} :
            /\ (v2 \in DOMAIN doc.selections)
                 <=> (v2 \in DOMAIN last_call.before.selections)
            /\ v2 \in DOMAIN doc.selections
                 => doc.selections[v2] = last_call.before.selections[v2]

\* an apply for one view that changes that view's selection and leaves the
\* buffer shorter than an offset of the selection stored for another view
C20_Witness ==
    /\ last_call.op = "apply" /\ last_call.ret
    /\ Document_selection(doc, last_call.view)
         # Document_selection(last_call.before, last_call.view)
    /\ \E v2 \in Views \ {last_call.view} :
          /\ v2 \in DOMAIN doc.selections
          /\ \E i \in 1..Len(doc.selections[v2].ranges) :
                /\ doc.selections[v2].ranges[i].anchor > Len(doc.rope)
                /\ doc.selections[v2].ranges[i].anchor
                     <= Len(last_call.before.rope)

\* ------------------------------------------------------------------------
\* Specification SpecApplyAny: a fresh Document is handed a Transaction
\* made by Transaction::new from any well-formed changeset, built for the
\* length of its buffer or for another length, and the edit is then undone
\* and redone. A call that panics ends the run.
\* ------------------------------------------------------------------------
AnyChangeSets ==
    UNION {{[doc_len |-> n, ops |-> ops] : ops \in WellFormedOps(n)} :
              n \in 0..MaxLen}

\* Document::apply as the first call on the Document
ApplyAny(view, changes) ==
    /\ last_call.op = "new"
    /\ LET tx == Transaction_new(changes)
           r == Document_apply(doc, tx, view)
       IN  /\ Called("apply", view, r, tx)
           /\ undo_log' = IF r.ret THEN Append(undo_log, Entry("apply", view))
                          ELSE undo_log
           /\ redo_log' = IF r.ret THEN <<>> ELSE redo_log

NextApplyAny ==
    \/ \E view \in Editors : \E changes \in AnyChangeSets :
          ApplyAny(view, changes)
    \/ \E view \in Views : ~last_call.panicked /\ Undo(view)
    \/ \E view \in Views : ~last_call.panicked /\ Redo(view)

SpecApplyAny == Init /\ [][NextApplyAny]_vars

\* C21: apply is all-or-nothing for any Transaction: when it does not
\* return true (it returns false or faults), the buffer, the selections,
\* the history and the version are as before the call; when it returns
\* true the buffer is the one the whole changeset gives, the inverse is on
\* the undo stack and the version is one higher. The buffer is never left
\* with a prefix of the ops applied.
C21_ApplyAllOrNothing ==
    last_call.op = "apply" =>
        IF last_call.ret
        THEN /\ ~last_call.panicked
             /\ doc.rope
                  = ChangeSet_apply(last_call.tx.changes, last_call.before.rope).rope
             /\ Len(doc.history.undo_stack)
                  = Len(last_call.before.history.undo_stack) + 1
             /\ doc.version = last_call.before.version + 1
        ELSE doc = last_call.before

\* C22: for well-formed changesets A and B with A.new_len() = B.doc_len,
\* the changeset C that A.compose(B) returns is well-formed: C.doc_len is
\* A.doc_len, the Retain and Delete lengths of C sum to C.doc_len, and
\* C.new_len() is B.new_len().
C22_ComposeWellFormed ==
    (cs_pc = "composed" /\ new_len(cs_out.c1) = cs_out.c2.doc_len)
        => /\ cs_out.res.kind = "Some"
           /\ cs_out.res.cs.doc_len = cs_out.c1.doc_len
           /\ old_len_ops(cs_out.res.cs.ops, 1) = cs_out.res.cs.doc_len
           /\ new_len(cs_out.res.cs) = new_len(cs_out.c2)

\* C23: in every state reached by Selection::new with any primary index,
\* add_cursor, add_range, replace with any list of ranges, set_primary_idx
\* with any index and transform, primary_idx < ranges.len(), and no call
\* indexes the range list out of bounds.
C23_PrimaryIdxInBounds ==
    /\ ~sel_last.panicked
    /\ sel_cur.primary_idx < Len(sel_cur.ranges)

\* C24: an apply, undo or redo that returns true increases version by
\* exactly 1, one that returns false leaves it unchanged, and save never
\* changes it; so last_saved_version <= version always, and every
\* successful apply, undo or redo leaves modified true, also an undo that
\* brings back the saved text.
C24_VersionCountsEdits ==
    /\ doc.last_saved_version <= doc.version
    /\ last_call.op \in {"apply", "undo", "redo"} =>
          IF last_call.ret
          THEN /\ doc.version = last_call.before.version + 1
               /\ doc.modified
          ELSE doc.version = last_call.before.version
    /\ last_call.op \in {"save", "save_as"} =>
          doc.version = last_call.before.version

\* a save at some version above 0, then an apply and its undo: the text
\* is the saved one again and modified stays true
C24_Witness ==
    /\ last_call.op = "undo" /\ last_call.ret
    /\ last_call.prev_op = "apply" /\ last_call.prev_ret
    /\ doc.last_saved_version > 0
    /\ doc.version = doc.last_saved_version + 2
    /\ doc.modified

\* ------------------------------------------------------------------------
\* Tree (tree.rs): the layout of the views.  A node is a leaf holding a
\* view id or a container holding child nodes; the ratios of a container
\* are 1/n for its n children and are left out.
\* ------------------------------------------------------------------------
Layouts == {"Horizontal", "Vertical"}

None == [some |-> FALSE, val |-> 0]
Some(v) == [some |-> TRUE, val |-> v]

Node_leaf(view_id) ==
    [kind |-> "Leaf", id |-> view_id, layout |-> "None", children |-> <<>>]
Node_container(layout, children) ==
    [kind |-> "Container", id |-> 0, layout |-> layout, children |-> children]

RECURSIVE Node_views(_), children_views(_), Node_contains(_, _),
          split_node(_, _, _, _), remove_view(_, _), remove_children(_, _)

\* children.iter().flat_map(|c| c.views())
children_views(children) ==
    IF children = <<>> THEN <<>>
    ELSE Node_views(Head(children)) \o children_views(Tail(children))

\* the view ids of a subtree, left to right
Node_views(node) ==
    IF node.kind = "Leaf" THEN <<node.id>> ELSE children_views(node.children)

Node_contains(node, view_id) ==
    IF node.kind = "Leaf" THEN node.id = view_id
    ELSE \E i \in 1..Len(node.children) :
            Node_contains(node.children[i], view_id)

\* the leaf of view_id becomes a container of it and the new view
split_node(node, view_id, new_view_id, layout) ==
    IF node.kind = "Leaf"
    THEN IF node.id = view_id
         THEN Node_container(layout,
                             <<Node_leaf(node.id), Node_leaf(new_view_id)>>)
         ELSE Node_leaf(node.id)
    ELSE [node EXCEPT !.children =
            [i \in 1..Len(node.children) |->
                split_node(node.children[i], view_id, new_view_id, layout)]]

\* children.iter().filter_map(|c| self.remove_view(c, view_id))
remove_children(children, view_id) ==
    IF children = <<>> THEN <<>>
    ELSE LET r == remove_view(Head(children), view_id)
         IN  (IF r.some THEN <<r.val>> ELSE <<>>)
             \o remove_children(Tail(children), view_id)

\* the subtree without the leaf of view_id; a container left with one
\* child is replaced by that child, one left with none disappears
remove_view(node, view_id) ==
    IF node.kind = "Leaf"
    THEN IF node.id = view_id THEN None ELSE Some(Node_leaf(node.id))
    ELSE LET new_children == remove_children(node.children, view_id)
         IN  IF Len(new_children) = 0 THEN None
             ELSE IF Len(new_children) = 1 THEN Some(new_children[1])
             ELSE Some(Node_container(node.layout, new_children))

Tree_new(view_id) == [root |-> Node_leaf(view_id), focus |-> view_id]

Tree_views(tree) == Node_views(tree.root)

Tree_set_focus(tree, view_id) ==
    IF Node_contains(tree.root, view_id) THEN [tree EXCEPT !.focus = view_id]
    ELSE tree

Tree_split(tree, new_view_id, layout) ==
    [root |-> split_node(tree.root, tree.focus, new_view_id, layout),
     focus |-> new_view_id]

\* views.iter().find(|&&id| id != view_id)
find_other(views, view_id) ==
    LET idx == {i \in 1..Len(views) : views[i] # view_id}
    IN  IF idx = {} THEN None
        ELSE Some(views[CHOOSE i \in idx : \A j \in idx : i <= j])

\* Tree::close: the tree after the call and the Option it returns
Tree_close(tree, view_id) ==
    LET views == Tree_views(tree)
        new_focus == find_other(views, view_id)
        removed == remove_view(tree.root, view_id)
    IN  IF Len(views) <= 1 THEN [tree |-> tree, ret |-> None]
        ELSE IF ~removed.some THEN [tree |-> tree, ret |-> None]
        ELSE IF new_focus.some
             THEN [tree |-> [root |-> removed.val,
                             focus |-> IF tree.focus = view_id
                                       THEN new_focus.val ELSE tree.focus],
                   ret |-> new_focus]
             ELSE [tree |-> [tree EXCEPT !.root = removed.val], ret |-> None]

\* ------------------------------------------------------------------------
\* View (view.rs) and Editor (editor.rs).  DocumentId::next and
\* ViewId::next draw from two process-wide counters that start at 1; a
\* HashMap is a function from the ids it holds.  Of a View the id and the
\* doc_id are kept (scroll offsets and sizes play no part here); of the
\* Editor the documents, the views, the tree and should_quit.
\* ------------------------------------------------------------------------
MaxDocs == 4       \* document ids handed out
MaxViews == 4      \* view ids handed out
Paths == {"p", "q"}
FileText == <<"a", "b">>

map_insert(m, k, v) ==
    [x \in DOMAIN m \cup {k} |-> IF x = k THEN v ELSE m[x]]
map_remove(m, k) == [x \in DOMAIN m \ {k} |-> m[x]]

View_new(id, doc_id) == [id |-> id, doc_id |-> doc_id]

\* Document::open of a file that was read
Document_open(path, text) == [Document_from_text(text) EXCEPT !.path = path]

\* what an Editor call leaves: the editor, the counters, the value returned
\* (an id, a boolean or "Err") and whether it panicked
EdResult(e, c, ret, panicked) ==
    [editor |-> e, counters |-> c, ret |-> ret, panicked |-> panicked]

Editor_new(c) ==
    EdResult([documents |-> map_insert(<<>>, c.doc, Document_from_text(<<>>)),
              views |-> map_insert(<<>>, c.view, View_new(c.view, c.doc)),
              tree |-> Tree_new(c.view),
              should_quit |-> FALSE],
             [doc |-> c.doc + 1, view |-> c.view + 1], c.doc, FALSE)

\* the views.get(&view_id) of current_view: present or not
has_current_view(e) == e.tree.focus \in DOMAIN e.views

\* remove the document unless some view of Editor.views shows it
cleanup_document(e, doc_id) ==
    IF \E v \in DOMAIN e.views : e.views[v].doc_id = doc_id THEN e
    ELSE [e EXCEPT !.documents = map_remove(@, doc_id)]

switch_to_document(e, doc_id) ==
    IF doc_id \in DOMAIN e.documents /\ has_current_view(e)
    THEN [e EXCEPT !.views[e.tree.focus].doc_id = doc_id]
    ELSE e

\* the ids of the documents that have this path; the loop of open returns
\* at the first one the HashMap yields
docs_with_path(e, path) ==
    {id \in DOMAIN e.documents : e.documents[id].path = path}

\* Editor::open.  found: the open document with this path that the loop
\* met first, if any; read: whether the file could be read
Editor_open(e, c, path, found, read) ==
    IF found.some
    THEN EdResult(switch_to_document(e, found.val), c, found.val, FALSE)
    ELSE IF ~read THEN EdResult(e, c, "Err", FALSE)
    ELSE LET doc_id == c.doc
             view_id == c.view
             c1 == [doc |-> c.doc + 1, view |-> c.view + 1]
             e1 == [e EXCEPT
                      !.documents = map_insert(@, doc_id,
                                               Document_open(path, FileText)),
                      !.views = map_insert(@, view_id,
                                           View_new(view_id, doc_id))]
         IN  IF ~has_current_view(e1) THEN EdResult(e1, c1, "Err", TRUE)
             ELSE LET old_doc_id == e1.views[e1.tree.focus].doc_id
                      e2 == [e1 EXCEPT !.views[e1.tree.focus].doc_id = doc_id]
                  IN  EdResult(cleanup_document(e2, old_doc_id), c1, doc_id,
                               FALSE)

Editor_new_document(e, c) ==
    LET doc_id == c.doc
        c1 == [c EXCEPT !.doc = c.doc + 1]
        e1 == [e EXCEPT !.documents =
                            map_insert(@, doc_id, Document_from_text(<<>>))]
    IN  IF has_current_view(e1)
        THEN LET old_doc_id == e1.views[e1.tree.focus].doc_id
                 e2 == [e1 EXCEPT !.views[e1.tree.focus].doc_id = doc_id]
             IN  EdResult(cleanup_document(e2, old_doc_id), c1, doc_id, FALSE)
        ELSE EdResult(e1, c1, doc_id, FALSE)

Editor_split(e, c, layout) ==
    IF ~has_current_view(e) THEN EdResult(e, c, FALSE, TRUE)
    ELSE LET current_doc_id == e.views[e.tree.focus].doc_id
             new_view_id == c.view
         IN  EdResult([e EXCEPT
                         !.views = map_insert(@, new_view_id,
                                       View_new(new_view_id, current_doc_id)),
                         !.tree = Tree_split(@, new_view_id, layout)],
                      [c EXCEPT !.view = c.view + 1], TRUE, FALSE)

Editor_close_view(e, c) ==
    LET view_id == e.tree.focus
        closed == Tree_close(e.tree, view_id)
    IN  IF closed.ret.some
        THEN LET e1 == [e EXCEPT !.tree = closed.tree,
                                 !.views = map_remove(@, view_id)]
                 e2 == IF view_id \in DOMAIN e.views
                       THEN cleanup_document(e1, e.views[view_id].doc_id)
                       ELSE e1
             IN  EdResult([e2 EXCEPT
                             !.tree = Tree_set_focus(@, closed.ret.val)],
                          c, TRUE, FALSE)
        ELSE EdResult([e EXCEPT !.tree = closed.tree], c, FALSE, FALSE)

\* the documents other than doc_id; close_buffer takes the first one the
\* HashMap yields
other_docs(e, doc_id) == DOMAIN e.documents \ {doc_id}

\* Editor::close_buffer.  other: the other document found, if any
Editor_close_buffer(e, c, other) ==
    IF ~has_current_view(e) THEN EdResult(e, c, FALSE, TRUE)
    ELSE LET doc_id == e.views[e.tree.focus].doc_id
         IN  IF doc_id \in DOMAIN e.documents /\ e.documents[doc_id].modified
             THEN EdResult(e, c, FALSE, FALSE)
             ELSE IF other.some
             THEN EdResult([switch_to_document(e, other.val) EXCEPT
                               !.documents = map_remove(@, doc_id)],
                           c, TRUE, FALSE)
             ELSE EdResult([e EXCEPT !.should_quit = TRUE], c, TRUE, FALSE)

\* ------------------------------------------------------------------------
\* Specifications SpecEditorOpen and SpecEditor: an Editor from Editor::new,
\* then open, new_document, split, close_view and close_buffer in any
\* order (SpecEditorOpen), and switch_to_document with any id as well
\* (SpecEditor).
\* ------------------------------------------------------------------------
Options(S) == IF S = {} THEN {None} ELSE {Some(x) : x \in S}

InitEditor ==
    /\ LET r == Editor_new([doc |-> 1, view |-> 1])
       IN  /\ editor = r.editor
           /\ counters = r.counters
           /\ ed_last = [op |-> "new", ret |-> r.ret, panicked |-> FALSE]
    /\ IdleCs /\ IdleHist /\ IdleDoc /\ IdleSel

EdCalled(op, r) ==
    /\ ~ed_last.panicked
    /\ editor' = r.editor
    /\ counters' = r.counters
    /\ ed_last' = [op |-> op, ret |-> r.ret, panicked |-> r.panicked]
    /\ UNCHANGED <<cs_vars, hist_vars, doc_vars, sel_vars>>

EdOpen(path, read) ==
    /\ counters.doc <= MaxDocs /\ counters.view <= MaxViews
    /\ \E found \in Options(docs_with_path(editor, path)) :
          EdCalled("open", Editor_open(editor, counters, path, found, read))

EdNewDocument ==
    /\ counters.doc <= MaxDocs
    /\ EdCalled("new_document", Editor_new_document(editor, counters))

EdSwitchToDocument(doc_id) ==
    EdCalled("switch_to_document",
             EdResult(switch_to_document(editor, doc_id), counters, TRUE,
                      FALSE))

EdSplit(layout) ==
    /\ counters.view <= MaxViews
    /\ EdCalled("split", Editor_split(editor, counters, layout))

EdCloseView == EdCalled("close_view", Editor_close_view(editor, counters))

EdCloseBuffer ==
    \E other \in Options(other_docs(editor,
                     IF has_current_view(editor)
                     THEN editor.views[editor.tree.focus].doc_id ELSE 0)) :
        EdCalled("close_buffer",
                 Editor_close_buffer(editor, counters, other))

NextEditorOpen ==
    \/ \E path \in Paths : \E read \in BOOLEAN : EdOpen(path, read)
    \/ EdNewDocument
    \/ \E layout \in Layouts : EdSplit(layout)
    \/ EdCloseView
    \/ EdCloseBuffer

NextEditor ==
    \/ NextEditorOpen
    \/ \E doc_id \in 1..MaxDocs : EdSwitchToDocument(doc_id)

SpecEditorOpen == InitEditor /\ [][NextEditorOpen]_vars
SpecEditor == InitEditor /\ [][NextEditor]_vars

\* the views of the layout tree, as a set
tree_views(e) == {Tree_views(e.tree)[i] : i \in 1..Len(Tree_views(e.tree))}

\* C25: every document held in Editor.documents is the document of at
\* least one view in the layout tree.
C25_DocumentsShownInTree ==
    \A d \in DOMAIN editor.documents :
        \E v \in tree_views(editor) :
            v \in DOMAIN editor.views /\ editor.views[v].doc_id = d

Bytes == {"a", "\n"}

len_bytes(rope) == Len(rope)

\* the indices (1-based) of the line feeds
line_breaks(rope) == {i \in 1..Len(rope) : rope[i] = "\n"}

len_lines(rope) == Cardinality(line_breaks(rope)) + 1

\* the line of the byte at this offset: the line feeds before it
byte_to_line(rope, byte_idx) ==
    Cardinality({i \in line_breaks(rope) : i <= byte_idx})

\* the offset of the first byte of the line; len_bytes for the line
\* one past the last
line_to_byte(rope, line_idx) ==
    IF line_idx = 0 THEN 0
    ELSE IF line_idx >= len_lines(rope) THEN Len(rope)
    ELSE CHOOSE i \in line_breaks(rope) :
            Cardinality({j \in line_breaks(rope) : j <= i}) = line_idx

\* rope.line(line_idx).len_bytes(), the line feed included
line_len_bytes(rope, line_idx) ==
    line_to_byte(rope, line_idx + 1) - line_to_byte(rope, line_idx)

Position_new(line, col) == [line |-> line, col |-> col]

from_offset(rope, offset) ==
    LET o == Min(offset, len_bytes(rope))
        line == byte_to_line(rope, o)
        line_start == line_to_byte(rope, line)
    IN  Position_new(line, o - line_start)

to_offset(pos, rope) ==
    IF pos.line >= len_lines(rope) THEN len_bytes(rope)
    ELSE LET line_start == line_to_byte(rope, pos.line)
             line_len == line_len_bytes(rope, pos.line)
         IN  line_start + Min(pos.col, Max(saturating_sub(line_len, 1), 0))

\* ------------------------------------------------------------------------
\* Specification SpecPosition: a buffer and a byte offset within it, then
\* from_offset and to_offset of the result.
\* ------------------------------------------------------------------------
ByteRopes == UNION {[1..k -> Bytes] : k \in 0..MaxLen}

InitPosition ==
    /\ \E rope \in ByteRopes : \E offset \in 0..Len(rope) :
          cs_in = [rope |-> rope, offset |-> offset]
    /\ cs_out = NoOut /\ cs_pc = "idle"
    /\ IdleHist /\ IdleDoc /\ IdleSel /\ IdleEd

FromToOffset ==
    /\ cs_pc = "idle"
    /\ LET pos == from_offset(cs_in.rope, cs_in.offset)
       IN  cs_out' = [pos |-> pos, back |-> to_offset(pos, cs_in.rope)]
    /\ cs_pc' = "positioned"
    /\ UNCHANGED <<cs_in, hist_vars, doc_vars, sel_vars, ed_vars>>

NextPosition == FromToOffset

SpecPosition == InitPosition /\ [][NextPosition]_vars

\* C26: for every buffer and every byte offset o within it,
\* from_offset(buffer, o).to_offset(buffer) = o.
C26_OffsetRoundTrip ==
    cs_pc = "positioned" => cs_out.back = cs_in.offset

\* C27: whenever the undo stack is non-empty the changes of its top entry
\* are declared for the buffer's current length, and likewise for the redo
\* stack.
C27_StackTopsFitBuffer ==
    /\ doc.history.undo_stack # <<>> =>
          pop(doc.history.undo_stack).top.changes.doc_len = Len(doc.rope)
    /\ doc.history.redo_stack # <<>> =>
          pop(doc.history.redo_stack).top.changes.doc_len = Len(doc.rope)

\* an undo that changed the buffer's length and left entries on both stacks
C27_Witness ==
    /\ last_call.op = "undo" /\ last_call.ret
    /\ doc.history.undo_stack # <<>>
    /\ doc.history.redo_stack # <<>>
    /\ Len(doc.rope) # Len(last_call.before.rope)

\* ------------------------------------------------------------------------
\* Specification SpecInvertAny: a well-formed changeset of any shape and a
\* buffer of the length it is declared for, then its inverse against that
\* buffer.
\* ------------------------------------------------------------------------
InitInvertAny ==
    /\ \E cs \in AnyChangeSets : \E buf \in SeqsOfLen(cs.doc_len) :
          cs_in = [cs |-> cs, buf |-> buf]
    /\ cs_out = NoOut /\ cs_pc = "idle"
    /\ IdleHist /\ IdleDoc /\ IdleSel /\ IdleEd

InvertAny ==
    /\ cs_pc = "idle"
    /\ LET inv == ChangeSet_invert(cs_in.cs, cs_in.buf)
       IN  cs_out' = [inverse |-> inv.cs, panicked |-> inv.panicked]
    /\ cs_pc' = "inverse taken"
    /\ UNCHANGED <<cs_in, hist_vars, doc_vars, sel_vars, ed_vars>>

NextInvertAny == InvertAny

SpecInvertAny == InitInvertAny /\ [][NextInvertAny]_vars

\* C28: for a well-formed changeset C and a buffer of length C.doc_len, the
\* inverse I = C.invert(buffer) has I.doc_len = C.new_len(),
\* I.new_len() = C.doc_len, and its Retain and Delete counts sum to
\* I.doc_len.
C28_InverseLengths ==
    cs_pc = "inverse taken" =>
        /\ ~cs_out.panicked
        /\ cs_out.inverse.doc_len = new_len(cs_in.cs)
        /\ new_len(cs_out.inverse) = cs_in.cs.doc_len
        /\ old_len_ops(cs_out.inverse.ops, 1) = cs_out.inverse.doc_len

\* the inverse of a changeset that retains, deletes and inserts, and that
\* changes the length
C28_Witness ==
    /\ cs_pc = "inverse taken"
    /\ \E i, j, k \in 1..Len(cs_in.cs.ops) :
          /\ cs_in.cs.ops[i].kind = "Retain"
          /\ cs_in.cs.ops[j].kind = "Delete"
          /\ cs_in.cs.ops[k].kind = "Insert"
    /\ new_len(cs_in.cs) # cs_in.cs.doc_len

\* ------------------------------------------------------------------------
\* Specification SpecApplySel: a Document over a buffer of 0..MaxLen
\* characters, a selection of one or two ranges within the buffer given to
\* the view with set_selection (or none, the view then has the default
\* selection), and one apply of a transaction without selection built by
\* from_change for the buffer's length.
\* ------------------------------------------------------------------------
RangesWithin(len) == {Range_new(a, h) : a \in 0..len, h \in 0..len}

SelectionsWithin(len) ==
    {Selection_new(<<r>>, 0) : r \in RangesWithin(len)}
    \cup {Selection_new(<<r1, r2>>, idx) :
            r1 \in RangesWithin(len), r2 \in RangesWithin(len),
            idx \in {0, 1}}

InitApplySel ==
    /\ \E text \in RunsUpTo(MaxLen) : doc = Document_from_text(text)
    /\ last_call = NoCall
    /\ undo_log = <<>>
    /\ redo_log = <<>>
    /\ steps = 0
    /\ IdleCs /\ IdleHist /\ IdleSel /\ IdleEd

SetSelection(view) ==
    /\ last_call.op = "new"
    /\ \E selection \in SelectionsWithin(Len(doc.rope)) :
          Called("set_selection", view,
                 [doc |-> set_selection(doc, view, selection), ret |-> TRUE,
                  panicked |-> FALSE], NoTx)
    /\ UNCHANGED <<undo_log, redo_log>>

ApplySel(view, change) ==
    /\ last_call.op \in {"new", "set_selection"}
    /\ Apply(view, change, NoSelection)

NextApplySel ==
    \/ \E view \in Editors : SetSelection(view)
    \/ \E view \in Editors : \E change \in ComposeChangesFor(Len(doc.rope)) :
          ApplySel(view, change)

SpecApplySel == InitApplySel /\ [][NextApplySel]_vars

\* every anchor and head of the selection is at most len
within(selection, len) ==
    \A i \in 1..Len(selection.ranges) :
        selection.ranges[i].anchor <= len /\ selection.ranges[i].head <= len

\* C30: if every anchor and head of the view's selection is within the
\* buffer before an apply of a transaction that carries no selection and
\* was built by from_change for the buffer's length, then after the apply
\* every anchor and head of the view's selection is within the new buffer.
C30_SelectionStaysInBuffer ==
    (/\ last_call.op = "apply"
     /\ ~last_call.tx.selection.some
     /\ within(Document_selection(last_call.before, last_call.view),
               Len(last_call.before.rope)))
        => /\ ~last_call.panicked
           /\ within(Document_selection(doc, last_call.view), Len(doc.rope))

\* an apply that shortens the buffer under a selection of two ranges, one
\* of them reaching the end of the buffer, and moves the selection
C30_Witness ==
    /\ last_call.op = "apply" /\ last_call.ret
    /\ ~last_call.tx.selection.some
    /\ Len(doc.rope) < Len(last_call.before.rope)
    /\ LET before == Document_selection(last_call.before, last_call.view)
       IN  /\ Len(before.ranges) = 2
           /\ before.ranges[2].head = Len(last_call.before.rope)
           /\ Document_selection(doc, last_call.view) # before

====
